---- MODULE Spec2Model ----
(***************************************************************************)
(* DockerManager: the monitor (update detection, staging, promotion,       *)
(* restart) and the docker supervisor (status polling, WaitForStatus).     *)
(*                                                                         *)
(* One action per JavaScript callback: a callback runs to completion on    *)
(* the single Node thread.  The promotion callback (the body of            *)
(* extract().then) is split at its synchronous filesystem calls, because   *)
(* each of them can throw and the containers that run from current/ see    *)
(* the directory between them; no other callback of the process runs       *)
(* while it is in progress (NoSyncSection).                                *)
(***************************************************************************)
EXTENDS Naturals, Sequences, FiniteSets

(* ------------------------------------------------------------------ *)
(* Bounds of the model                                                   *)
(* ------------------------------------------------------------------ *)

\* How many monitor cycles may be in flight at the same time.
MaxOverlap == 2

\* Largest maxAttempts tried on a stand-alone WaitForStatus call.
MaxWaitAttempts == 4

(* ------------------------------------------------------------------ *)
(* Program constants and the universe of the model                     *)
(* ------------------------------------------------------------------ *)

\* stopAndRestart waits for "down" with 12 attempts.
RestartAttempts == 12

Profiles == {"p1", "p2"}

\* Services of the compose file.  Service "p1" carries the name of profile
\* p1; no service carries the name of profile p2.
Services == {"p1", "svc"}

\* Profile identifiers read from the compose file (Docker.profiles).
DockerProfiles == {"p1", "p2"}

\* Upstream fingerprints (commit sha, or asset name without extension).
FPs == {"a", "b"}

NoFP == "none"

Slots == 1..MaxOverlap

VARIABLES
    monitors,    \* Monitor.monitors: profile -> MonitorDetails
    autostart,   \* AutostartMonitorProfiles
    cache,       \* Monitor.cache: profile -> fingerprint, NoFP when absent
    builds,      \* <destination>/builds/<fp>: "absent" or a tree
    temp,        \* <destination>/temp: "absent" or [zip, tree]
    current,     \* <destination>/current: [of, st, aux]
    cyc,         \* per cycle slot: "free" or "query" (GetStatuses pending)
    cycInit,     \* per cycle slot: the isInit argument of runMonitor
    ev,          \* per cycle slot and profile: the evaluation of the profile
    calls,       \* what the last callback called (docker, sync, network)
    wrote,       \* the paths the last callback wrote, as <<profile, path>>
    w,           \* a stand-alone WaitForStatus call
    api,         \* a stand-alone call of StartProfile, StopProfile,
                 \* ExecuteCommand or GetStatuses
    feed         \* response.data of the releases request: the releases
                 \* of the repository, newest first

vars == <<monitors, autostart, cache, builds, temp, current, cyc, cycInit,
          ev, calls, wrote, w, api, feed>>

fsVars == <<builds, temp, current>>
cfgVars == <<monitors, autostart>>

(* ------------------------------------------------------------------ *)
(* Configuration (Monitor constructor)                                   *)
(* ------------------------------------------------------------------ *)

\* The default of asset_regex, ".*".
MatchAll == <<".", "*">>

MonitorDetails(type, dest, auto, rpf, files, conts) ==
    [Type |-> type, DestinationDirectory |-> dest, AutoRestart |-> auto,
     RemoveParentFolder |-> rpf, CopyFiles |-> files,
     MonitorContainers |-> conts,
     AllowPrerelease |-> FALSE, AssetRegex |-> MatchAll]

\* The deployments the model is run on.  In the first kind p1 is a branch
\* source staged to disk with one auxiliary file, and p2 a release feed
\* that is only watched for new versions; in the second kind p2 is a release
\* feed without destination that monitors container "svc", and p1 a branch
\* that is only watched; in the third kind p1 is staged to disk and also
\* monitors container "svc".
StagedP1(auto, rpf) == MonitorDetails("repo", TRUE, auto, rpf, <<"cfg">>, {})
WatchedP1 == MonitorDetails("repo", FALSE, FALSE, FALSE, <<>>, {})
WatchedP2 == MonitorDetails("release", FALSE, FALSE, FALSE, <<>>, {})
MonitoredP2(auto) == MonitorDetails("release", FALSE, auto, FALSE, <<>>, {"svc"})
MonitoredStagedP1 == MonitorDetails("repo", TRUE, FALSE, FALSE, <<"cfg">>, {"svc"})

Setups ==
    { [monitors |-> [p \in Profiles |->
                        IF p = "p1" THEN StagedP1(auto, rpf) ELSE WatchedP2],
       autostart |-> as] :
      auto \in BOOLEAN, rpf \in BOOLEAN, as \in {{}, {"p1"}} }
    \cup
    { [monitors |-> [p \in Profiles |->
                        IF p = "p1" THEN WatchedP1 ELSE MonitoredP2(auto)],
       autostart |-> as] :
      auto \in BOOLEAN, as \in {{}, {"p2"}} }
    \cup
    { [monitors |-> [p \in Profiles |->
                        IF p = "p1" THEN MonitoredStagedP1 ELSE WatchedP2],
       autostart |-> {}] }

\* The deployment on which overlapping cycles are explored: no restart is
\* ever due, so that the evaluations in flight are fetches and promotions.
OverlapSetup ==
    [monitors |-> [p \in Profiles |->
                      IF p = "p1" THEN StagedP1(FALSE, FALSE) ELSE WatchedP2],
     autostart |-> {}]

(* ------------------------------------------------------------------ *)
(* Values                                                                *)
(* ------------------------------------------------------------------ *)

\* A directory or file: absent, empty, or holding (part of) what the
\* archive of fingerprint `of` holds.
AbsentDir == [exists |-> FALSE, of |-> NoFP, whole |-> FALSE]
EmptyDir == [exists |-> TRUE, of |-> NoFP, whole |-> FALSE]
Tree(of, whole) == [exists |-> TRUE, of |-> of, whole |-> whole]

AbsentTemp == [exists |-> FALSE, zip |-> AbsentDir, tree |-> AbsentDir]
EmptyTemp == [exists |-> TRUE, zip |-> AbsentDir, tree |-> AbsentDir]

\* current/: st is "absent", "partial" (half removed or half copied) or
\* "whole" (a finished copy of builds/<of>); aux: the auxiliary files in it.
NoCurrent == [of |-> NoFP, st |-> "absent", aux |-> {}]

\* A liveness snapshot: the keys it has and the keys that are up.
\* No releases request is modelled.
NoFeed == <<>>

Snapshot(keys, up) == [ok |-> TRUE, keys |-> keys, up |-> up]
FailedQuery == [ok |-> FALSE, keys |-> {}, up |-> {}]

Idle == [pc |-> "idle", isInit |-> FALSE, up |-> {}, fp |-> NoFP,
         att |-> 0, disturbed |-> FALSE]

PromoPcs == {"rename", "rmcurrent", "cpcurrent", "copyfiles", "cacheset"}
StagingPcs == {"download", "piping", "extract"}
WaitPcs == {"poll", "sleep"}

\* No evaluation is inside the synchronous promotion callback.
NoSyncSection ==
    \A k \in Slots : \A p \in Profiles : ev[k][p].pc \notin PromoPcs

NoWait == [pc |-> "none", name |-> "p1", desired |-> FALSE, max |-> 0,
           att |-> 0, polls |-> 0, sleeps |-> 0, result |-> "none",
           saw |-> FALSE]

\* No call of the docker supervisor is in progress.  spawned: the
\* subprocesses the call launched; reports: the results it gave its
\* callback; out: what `docker compose ps -a` printed; result: what
\* GetStatuses gave its callback.
NoApi == [op |-> "none", pc |-> "idle", name |-> "p1", ret |-> FALSE,
          spawned |-> <<>>, reports |-> <<>>, ran |-> FALSE, sawUp |-> FALSE,
          out |-> [error |-> FALSE, stderr |-> FALSE, rows |-> <<>>],
          result |-> [success |-> FALSE, statuses |-> [x \in {} |-> FALSE]]]

Call(op, p) == [op |-> op, p |-> p]

SeqToSet(s) == { s[i] : i \in 1..Len(s) }

(* ------------------------------------------------------------------ *)
(* Docker (status reader and supervisor)                                 *)
(* ------------------------------------------------------------------ *)

\* Docker.GetStatuses: what the callback can be handed.  A failed query
\* hands over an empty snapshot; a successful one has every service of the
\* compose file as a key.
StatusOutcomes ==
    {FailedQuery} \cup { Snapshot(Services, up) : up \in SUBSET Services }

\* Docker.GetContainerStatus: the (success, isUp) pair given to the callback.
GetContainerStatus(containerName, q) ==
    IF ~q.ok THEN [success |-> FALSE, isUp |-> FALSE]
    ELSE IF containerName \notin q.keys
         THEN [success |-> FALSE, isUp |-> FALSE]
         ELSE [success |-> TRUE, isUp |-> containerName \in q.up]

\* Docker.WaitForStatus, the test of the status callback.
StatusReached(r, desiredStatus) == r.isUp = desiredStatus

\* Docker.WaitForStatus, the attempts handed to the call made by the timer.
AttemptsLeft(attempts) == attempts - 1

\* Docker.StartProfile / Docker.StopProfile: whether a subprocess is spawned.
KnownProfile(profileName) == profileName \in DockerProfiles

\* spawn(..., {detached: true}): the subprocess runs on its own.
Spawned(cmd, scope) == [cmd |-> cmd, scope |-> scope, exited |-> FALSE]

\* A variant of StartProfile that does not look the profile up.
StartProfileUnchecked(profileName) ==
    [ret |-> TRUE, spawned |-> <<Spawned("up", profileName)>>]

\* Docker.StartProfile: the value returned and the subprocesses launched.
StartProfile(profileName) ==
    IF ~KnownProfile(profileName) THEN [ret |-> FALSE, spawned |-> <<>>]
    ELSE [ret |-> TRUE, spawned |-> <<Spawned("up", profileName)>>]

\* Docker.StopProfile
StopProfile(profileName) ==
    IF ~KnownProfile(profileName) THEN [ret |-> FALSE, spawned |-> <<>>]
    ELSE [ret |-> TRUE, spawned |-> <<Spawned("stop", profileName)>>]

\* Text is a sequence of characters.
UpToken == <<"U", "p">>

\* String.prototype.startsWith
StartsWith(text, prefix) ==
    Len(text) >= Len(prefix) /\ SubSeq(text, 1, Len(prefix)) = prefix

\* A variant of the test below that wants the status to be "Up" alone.
IsExactlyUp(status) == status = UpToken

\* Docker.GetStatuses: const isUp = status.startsWith("Up")
IsUp(status) == StartsWith(status, UpToken)

\* results[key] = value
Put(results, key, value) ==
    [x \in DOMAIN results \cup {key} |->
        IF x = key THEN value ELSE results[x]]

\* Docker.GetStatuses, the loop over the lines after the header.  A line
\* is given by its NAME, SERVICE and STATUS columns.  The IMAGE column is
\* cut with the index of "COMMND", which is -1: substring(nameEnd, -1)
\* is the NAME column again, so that the third key is the name.
RECURSIVE ParseRows(_, _)
ParseRows(rows, results) ==
    IF rows = <<>> THEN results
    ELSE LET line == Head(rows)
             isUp == IsUp(line.status)
         IN  IF line.service = "" THEN ParseRows(Tail(rows), results)
             ELSE ParseRows(Tail(rows),
                            Put(Put(Put(results, line.service, isUp),
                                    line.name, isUp),
                                line.name, isUp))

\* Docker.GetStatuses, the services of the compose file that no line named.
WithServices(results) ==
    [x \in DOMAIN results \cup Services |->
        IF x \in DOMAIN results THEN results[x] ELSE FALSE]

\* Docker.GetStatuses, the callback of exec('docker compose ps -a').
GetStatuses(out) ==
    IF out.error THEN [success |-> FALSE, statuses |-> [x \in {} |-> FALSE]]
    ELSE IF out.stderr
         THEN [success |-> FALSE, statuses |-> [x \in {} |-> FALSE]]
         ELSE [success |-> TRUE,
               statuses |-> WithServices(ParseRows(out.rows,
                                                   [x \in {} |-> FALSE]))]

\* A variant of the callback below that runs the command unless the
\* container is known to be down.
OnExecuteStatusLenient(c, q) ==
    LET r == GetContainerStatus(c.name, q)
    IN  IF r.success /\ ~r.isUp
        THEN [c EXCEPT !.pc = "done",
                       !.reports = Append(c.reports,
                          [ok |-> FALSE,
                           output |-> "Container is not currently running"])]
        ELSE [c EXCEPT !.pc = "exec", !.ran = TRUE,
                       !.spawned = Append(c.spawned, Spawned("exec", c.name))]

\* Docker.ExecuteCommand, the callback of GetContainerStatus.
OnExecuteStatus(c, q) ==
    LET r == GetContainerStatus(c.name, q)
    IN  IF ~r.success \/ ~r.isUp
        THEN [c EXCEPT !.pc = "done",
                       !.reports = Append(c.reports,
                          [ok |-> FALSE,
                           output |-> "Container is not currently running"])]
        ELSE [c EXCEPT !.pc = "exec", !.ran = TRUE,
                       !.spawned = Append(c.spawned, Spawned("exec", c.name))]

ExecOutcomes == {"error", "stderr", "stdout"}

\* Docker.ExecuteCommand, the callback of exec('docker exec ...').
OnExecuteDone(c, o) ==
    [c EXCEPT !.pc = "done",
              !.spawned = [i \in 1..Len(c.spawned) |->
                              [c.spawned[i] EXCEPT !.exited = TRUE]],
              !.reports = Append(c.reports,
                                 [ok |-> o = "stdout", output |-> o])]

(* ------------------------------------------------------------------ *)
(* Monitor: what a callback does to the profile it evaluates             *)
(* ------------------------------------------------------------------ *)

\* The effect of one callback on profile p: the evaluation's next position,
\* the calls made, and p's cache entry and directories afterwards.
\* wipe: temp/ was removed or moved away under other evaluations;
\* clobber: temp/files.zip was reopened for writing under other downloads;
\* crash: the callback ended in an uncaught exception (the process exits
\* and is started again).
Keep(k, p) ==
    [task |-> ev[k][p], calls |-> <<>>, cache |-> cache[p],
     builds |-> builds[p], temp |-> temp[p], current |-> current[p],
     wrote |-> {}, wipe |-> FALSE, clobber |-> FALSE, crash |-> FALSE]

Ended(e) == [e EXCEPT !.task = Idle]

\* Monitor.syncMonitorFiles, the comparison `sourceDate != destinationDate`
\* of two Date objects made by two `new Date()`: object identity.
DatesDiffer == TRUE

\* Monitor.syncMonitorFiles over the remaining CopyFiles: utimesSync on the
\* source, utimesSync on current/<file> (throws when it is missing), then
\* the copy.  wr: what was written, "source" and "current" for the times
\* of the two files, "copy" for the content of current/<file>.
RECURSIVE SyncFiles(_, _, _)
SyncFiles(files, cur, wr) ==
    IF files = <<>> THEN [current |-> cur, wrote |-> wr, threw |-> FALSE]
    ELSE IF Head(files) \notin cur.aux
         THEN [current |-> cur, wrote |-> wr \cup {"source"}, threw |-> TRUE]
         ELSE IF DatesDiffer
              THEN SyncFiles(Tail(files), cur,
                             wr \cup {"source", "current", "copy"})
              ELSE SyncFiles(Tail(files), cur, wr \cup {"source", "current"})

syncMonitorFiles(e, p) ==
    LET s == SyncFiles(monitors[p].CopyFiles, e.current, {})
    IN  [e EXCEPT !.current = s.current,
                  !.wrote = e.wrote \cup { <<p, x>> : x \in s.wrote },
                  !.calls = Append(e.calls, Call("Sync", p)),
                  !.crash = s.threw]

\* The evaluation while WaitForStatus(profile, false, 12) has a poll pending.
RestartTask == [Idle EXCEPT !.pc = "poll", !.att = RestartAttempts]

\* Monitor.stopAndRestart up to the first GetStatuses of WaitForStatus.
stopAndRestart(e, p) ==
    IF RestartAttempts = 0
    THEN [e EXCEPT !.task = Idle, !.calls = Append(e.calls, Call("Stop", p))]
    ELSE [e EXCEPT !.task = RestartTask,
                   !.calls = Append(e.calls, Call("Stop", p))]

\* Monitor.checkMonitorStatus
checkMonitorStatus(e, p, upStatuses) ==
    LET conts == monitors[p].MonitorContainers
        numRunning == Cardinality({ x \in conts : x \in upStatuses })
    IN  IF conts = {} THEN Ended(e)
        ELSE IF numRunning # Cardinality(conts) THEN stopAndRestart(e, p)
             ELSE Ended(e)

\* The restart test of downloadAndExtract and of runReleaseMonitor.
RestartWanted(p, isInit) ==
    monitors[p].AutoRestart \/ (isInit /\ p \in autostart)

\* A variant of downloadAndExtract below that removes current/ before the
\* download is requested.
downloadAndExtractInPlace(e, p, cacheValue, isInit) ==
    IF e.builds[cacheValue].exists
    THEN LET e1 == [e EXCEPT !.cache = cacheValue]
         IN  IF RestartWanted(p, isInit) THEN stopAndRestart(e1, p)
             ELSE Ended(e1)
    ELSE [e EXCEPT !.temp = EmptyTemp,
                   !.current = NoCurrent,
                   !.wrote = e.wrote \cup {<<p, "temp">>, <<p, "current">>},
                   !.wipe = TRUE,
                   !.calls = Append(e.calls, Call("Download", p)),
                   !.task = [Idle EXCEPT !.pc = "download",
                                         !.fp = cacheValue,
                                         !.isInit = isInit]]

\* A variant of downloadAndExtract below that records the fingerprint when
\* the download is requested.
downloadAndExtractCachingAtStart(e, p, cacheValue, isInit) ==
    IF e.builds[cacheValue].exists
    THEN LET e1 == [e EXCEPT !.cache = cacheValue]
         IN  IF RestartWanted(p, isInit) THEN stopAndRestart(e1, p)
             ELSE Ended(e1)
    ELSE [e EXCEPT !.temp = EmptyTemp,
                   !.cache = cacheValue,
                   !.wrote = e.wrote \cup {<<p, "temp">>},
                   !.wipe = TRUE,
                   !.calls = Append(e.calls, Call("Download", p)),
                   !.task = [Idle EXCEPT !.pc = "download",
                                         !.fp = cacheValue,
                                         !.isInit = isInit]]

\* Monitor.downloadAndExtract up to the download request.
downloadAndExtract(e, p, cacheValue, isInit) ==
    IF e.builds[cacheValue].exists
    THEN LET e1 == [e EXCEPT !.cache = cacheValue]
         IN  IF RestartWanted(p, isInit) THEN stopAndRestart(e1, p)
             ELSE Ended(e1)
    ELSE [e EXCEPT !.temp = EmptyTemp,
                   !.wrote = e.wrote \cup {<<p, "temp">>},
                   !.wipe = TRUE,
                   !.calls = Append(e.calls, Call("Download", p)),
                   !.task = [Idle EXCEPT !.pc = "download",
                                         !.fp = cacheValue,
                                         !.isInit = isInit]]

\* A variant of the cache-hit branch below that reconciles liveness against
\* an empty snapshot instead of the one of the cycle.
CacheHitWithoutSnapshot(e, p, upStatuses) ==
    LET e1 == syncMonitorFiles(e, p)
    IN  IF e1.crash THEN Ended([e1 EXCEPT !.crash = FALSE])
        ELSE checkMonitorStatus(e1, p, {})

\* The cache-hit branch of runRepoMonitor and runReleaseMonitor.  An
\* exception of syncMonitorFiles is caught by the .catch of the request.
CacheHit(e, p, upStatuses) ==
    LET e1 == syncMonitorFiles(e, p)
    IN  IF e1.crash THEN Ended([e1 EXCEPT !.crash = FALSE])
        ELSE checkMonitorStatus(e1, p, upStatuses)

\* Monitor.runRepoMonitor, the callbacks of axios.get(repoUrl).
runRepoMonitor(k, p, o) ==
    LET t == ev[k][p]
        e == Keep(k, p)
    IN  IF o.kind = "reject" THEN Ended(e)
        ELSE IF cache[p] # NoFP /\ cache[p] = o.fp
             THEN CacheHit(e, p, t.up)
        ELSE IF monitors[p].DestinationDirectory
             THEN downloadAndExtract(e, p, o.fp, t.isInit)
        ELSE IF monitors[p].AutoRestart THEN stopAndRestart(e, p)
        ELSE IF t.isInit /\ p \in autostart THEN stopAndRestart(e, p)
        ELSE checkMonitorStatus(e, p, t.up)

\* A variant of the release handler below that never restarts a profile
\* without destination on a new fingerprint and reconciles liveness instead.
runReleaseMonitorReconciling(k, p, o) ==
    LET t == ev[k][p]
        e == Keep(k, p)
    IN  IF o.kind \in {"reject", "empty"} THEN Ended(e)
        ELSE IF o.kind = "non200"
             THEN IF t.isInit /\ p \in autostart THEN stopAndRestart(e, p)
                  ELSE Ended(e)
        ELSE IF cache[p] # NoFP /\ cache[p] = o.fp
             THEN CacheHit(e, p, t.up)
        ELSE IF monitors[p].DestinationDirectory
             THEN downloadAndExtract(e, p, o.fp, t.isInit)
        ELSE checkMonitorStatus(e, p, t.up)

\* Monitor.runReleaseMonitor, the callbacks of axios.get(releaseUrl).
\* "empty": no asset survives the filter; results is [], which is truthy,
\* and results[0].name throws a TypeError that the .catch logs.
runReleaseMonitor(k, p, o) ==
    LET t == ev[k][p]
        e == Keep(k, p)
    IN  IF o.kind = "reject" THEN Ended(e)
        ELSE IF o.kind = "non200"
             THEN IF t.isInit /\ p \in autostart THEN stopAndRestart(e, p)
                  ELSE Ended(e)
        ELSE IF o.kind = "empty" THEN Ended(e)
        ELSE IF cache[p] # NoFP /\ cache[p] = o.fp
             THEN CacheHit(e, p, t.up)
        ELSE IF monitors[p].DestinationDirectory
             THEN downloadAndExtract(e, p, o.fp, t.isInit)
        ELSE IF RestartWanted(p, t.isInit) THEN stopAndRestart(e, p)
        ELSE checkMonitorStatus(e, p, t.up)

\* name.match(regex) for a pattern string: ".*" matches every name, and a
\* pattern without metacharacters matches the names that contain it.
Matches(name, regex) ==
    \/ regex = MatchAll
    \/ \E i \in 0..(Len(name) - Len(regex)) :
          SubSeq(name, i + 1, i + Len(regex)) = regex

\* reduce(function (a, b) { return a.concat(b); }, [])
RECURSIVE Concat(_)
Concat(lists) ==
    IF lists = <<>> THEN <<>> ELSE Head(lists) \o Concat(Tail(lists))

\* runReleaseMonitor, `results`: the releases that are no prerelease (all
\* with AllowPrerelease), each mapped to its assets whose name matches
\* AssetRegex, concatenated.
ReleaseResults(data, m) ==
    LET Allowed(x) == ~x.prerelease \/ m.AllowPrerelease
        Wanted(y) == Matches(y.name, m.AssetRegex)
        kept == SelectSeq(data, Allowed)
    IN  Concat([i \in 1..Len(kept) |-> SelectSeq(kept[i].assets, Wanted)])

\* A variant of StripExtension below that cuts the name at its first dot.
StripAllExtensions(name) ==
    LET dots == { i \in 1..Len(name) : name[i] = "." }
    IN  IF dots = {} THEN name
        ELSE SubSeq(name, 1, (CHOOSE i \in dots : \A j \in dots : i <= j) - 1)

\* name.replace(/\.[^/.]+$/, ""): a dot followed, up to the end of the
\* name, by one or more characters that are neither "/" nor ".".
StripExtension(name) ==
    LET starts == { i \in 1..(Len(name) - 1) :
                      /\ name[i] = "."
                      /\ \A j \in (i + 1)..Len(name) : name[j] \notin {"/", "."} }
    IN  IF starts = {} THEN name
        ELSE SubSeq(name, 1, (CHOOSE i \in starts : TRUE) - 1)

\* The answer of the releases request with status 200 and body `data`, as
\* runReleaseMonitor reads it: results[0].name without its extension, or
\* the TypeError of results[0].name when results is [].
FeedOutcome(data, m) ==
    LET results == ReleaseResults(data, m)
    IN  IF results = <<>> THEN [kind |-> "empty", fp |-> NoFP]
        ELSE [kind |-> "ok", fp |-> StripExtension(results[1].name)]

\* What the upstream can answer.
VersionOutcomes(type) ==
    {[kind |-> "reject", fp |-> NoFP]}
    \cup { [kind |-> "ok", fp |-> f] : f \in FPs }
    \cup (IF type = "release"
          THEN {[kind |-> "non200", fp |-> NoFP], [kind |-> "empty", fp |-> NoFP]}
          ELSE {})

(* ------------------------------------------------------------------ *)
(* Monitor: staging (download, extraction)                               *)
(* ------------------------------------------------------------------ *)

DownloadOutcomes == {"reject", "non200", "ok"}

OtherPiping(k, p) ==
    \E j \in Slots : j # k /\ ev[j][p].pc = "piping"

\* A variant of the callbacks below that records the fingerprint when the
\* download fails.
OnDownloadCachingOnError(k, p, o) ==
    LET t == ev[k][p]
        e == Keep(k, p)
    IN  IF o \in {"reject", "non200"} THEN Ended([e EXCEPT !.cache = t.fp])
        ELSE IF ~e.temp.exists THEN [Ended(e) EXCEPT !.crash = TRUE]
        ELSE [e EXCEPT !.temp.zip = Tree(t.fp, FALSE),
                       !.wrote = {<<p, "temp">>},
                       !.clobber = TRUE,
                       !.task = [t EXCEPT !.pc = "piping"]]

\* Monitor.downloadAndExtract, the callbacks of the download request.  On
\* status 200 the body is piped into temp/files.zip: the file is opened for
\* writing (truncating what another download writes there); when temp/ is
\* gone the stream's 'error' event has no listener.
OnDownload(k, p, o) ==
    LET t == ev[k][p]
        e == Keep(k, p)
    IN  IF o = "reject" THEN Ended(e)
        ELSE IF o = "non200"
             THEN IF t.isInit /\ p \in autostart THEN stopAndRestart(e, p)
                  ELSE Ended(e)
        ELSE IF ~e.temp.exists THEN [Ended(e) EXCEPT !.crash = TRUE]
        ELSE [e EXCEPT !.temp.zip = Tree(t.fp, FALSE),
                       !.wrote = {<<p, "temp">>},
                       !.clobber = TRUE,
                       !.task = [t EXCEPT !.pc = "piping",
                                          !.disturbed = OtherPiping(k, p)]]

\* The 'finish' event of the write stream: extract(tempZip) is called.  A
\* download that was disturbed leaves no readable archive of its own, and
\* the extraction can only reject (a rejection nobody handles).
OnFinish(k, p) ==
    LET t == ev[k][p]
        e == Keep(k, p)
    IN  IF t.disturbed THEN Ended(e)
        ELSE [e EXCEPT !.temp.zip = Tree(t.fp, TRUE),
                       !.wrote = {<<p, "temp">>},
                       !.task = [t EXCEPT !.pc = "extract"]]

\* extract() resolves: the promotion callback starts.  Entries written
\* before temp/ was removed under the extraction are missing.
OnExtracted(k, p) ==
    LET t == ev[k][p]
        e == Keep(k, p)
    IN  [e EXCEPT !.temp = [exists |-> TRUE,
                            zip |-> IF t.disturbed THEN e.temp.zip
                                    ELSE Tree(t.fp, TRUE),
                            tree |-> Tree(t.fp, ~t.disturbed)],
                  !.wrote = {<<p, "temp">>},
                  !.task = [t EXCEPT !.pc = "rename", !.disturbed = FALSE]]

(* ------------------------------------------------------------------ *)
(* Monitor: promotion (the body of extract().then)                       *)
(* ------------------------------------------------------------------ *)

\* A variant of the move below that replaces whatever is at builds/<fp>.
PromoteRenameOver(k, p, ok) ==
    LET t == ev[k][p]
        e == Keep(k, p)
        canMove == ok /\ e.temp.exists /\ e.temp.tree.exists
    IN  IF ~canMove THEN Ended(e)
        ELSE [e EXCEPT !.builds = [e.builds EXCEPT ![t.fp] = e.temp.tree],
                       !.temp = IF monitors[p].RemoveParentFolder
                                THEN EmptyTemp ELSE AbsentTemp,
                       !.wipe = ~monitors[p].RemoveParentFolder,
                       !.wrote = {<<p, "builds">>, <<p, "temp">>},
                       !.task = [t EXCEPT !.pc = "rmcurrent"]]

\* fs.renameSync(copyPath, buildDirectory).  With RemoveParentFolder the
\* first directory of temp/ is moved and temp/ stays (files.zip is removed
\* by the pending fs.rm); otherwise temp/ itself is moved.  The move throws
\* when builds/<fp> exists and is not empty.
PromoteRename(k, p, ok) ==
    LET t == ev[k][p]
        e == Keep(k, p)
        target == e.builds[t.fp]
        canMove == ok /\ e.temp.exists /\ e.temp.tree.exists
                      /\ (~target.exists \/ target = EmptyDir)
    IN  IF ~canMove THEN Ended(e)
        ELSE [e EXCEPT !.builds = [e.builds EXCEPT ![t.fp] = e.temp.tree],
                       !.temp = IF monitors[p].RemoveParentFolder
                                THEN EmptyTemp ELSE AbsentTemp,
                       !.wipe = ~monitors[p].RemoveParentFolder,
                       !.wrote = {<<p, "builds">>, <<p, "temp">>},
                       !.task = [t EXCEPT !.pc = "rmcurrent"]]

RemoveOutcomes == {"ok", "throwIntact", "throwPartial"}

\* fs.rmSync(current) when current/ exists.
PromoteRemoveCurrent(k, p, o) ==
    LET t == ev[k][p]
        e == Keep(k, p)
    IN  IF e.current.st = "absent" THEN [e EXCEPT !.task.pc = "cpcurrent"]
        ELSE IF o = "ok"
             THEN [e EXCEPT !.current = NoCurrent,
                            !.wrote = {<<p, "current">>},
                            !.task.pc = "cpcurrent"]
        ELSE IF o = "throwIntact" THEN Ended(e)
        ELSE Ended([e EXCEPT !.current.st = "partial",
                             !.wrote = {<<p, "current">>}])

\* fs.cpSync(buildDirectory, current)
PromoteCopyBuild(k, p, ok) ==
    LET t == ev[k][p]
        e == Keep(k, p)
    IN  IF ok
        THEN [e EXCEPT !.current = [of |-> t.fp, st |-> "whole", aux |-> {}],
                       !.wrote = {<<p, "current">>},
                       !.task.pc = "copyfiles"]
        ELSE Ended([e EXCEPT !.current =
                                [of |-> t.fp, st |-> "partial", aux |-> {}],
                             !.wrote = {<<p, "current">>}])

\* CopyFiles.forEach(cpSync(<destination>/<file>, current/<file>)); a
\* failure at file number `failAt` leaves the files before it copied.
PromoteCopyFiles(k, p, failAt) ==
    LET t == ev[k][p]
        e == Keep(k, p)
        files == monitors[p].CopyFiles
        done == { files[i] : i \in 1..(IF failAt = 0 THEN Len(files)
                                       ELSE failAt - 1) }
        e1 == [e EXCEPT !.current.aux = e.current.aux \cup done,
                        !.wrote = IF done = {} THEN {} ELSE {<<p, "current">>}]
    IN  IF failAt = 0 THEN [e1 EXCEPT !.task.pc = "cacheset"]
        ELSE Ended(e1)

\* A variant of the end of the promotion below that stops the profile twice.
PromoteFinishStoppingTwice(k, p) ==
    LET t == ev[k][p]
        e == [Keep(k, p) EXCEPT !.cache = t.fp]
    IN  IF monitors[p].AutoRestart
        THEN stopAndRestart(stopAndRestart(e, p), p)
        ELSE IF t.isInit /\ p \in autostart
             THEN stopAndRestart(stopAndRestart(e, p), p)
        ELSE Ended(e)

\* this.cache[monitor.Profile] = cacheValue, then the restart decision.
PromoteFinish(k, p) ==
    LET t == ev[k][p]
        e == [Keep(k, p) EXCEPT !.cache = t.fp]
    IN  IF monitors[p].AutoRestart THEN stopAndRestart(e, p)
        ELSE IF t.isInit /\ p \in autostart THEN stopAndRestart(e, p)
        ELSE Ended(e)

(* ------------------------------------------------------------------ *)
(* Monitor: the restart (callbacks of WaitForStatus)                     *)
(* ------------------------------------------------------------------ *)

\* A variant of the callback below that ignores the outcome of the wait.
RestartCallbackIgnoringWait(e, p, success) ==
    LET e1 == syncMonitorFiles(e, p)
    IN  IF e1.crash THEN Ended(e1)
        ELSE Ended([e1 EXCEPT !.calls = Append(e1.calls, Call("Start", p))])

\* The callback that stopAndRestart gives to WaitForStatus.  It runs inside
\* the callback of exec: an exception of syncMonitorFiles is uncaught.
RestartCallback(e, p, success) ==
    IF success
    THEN LET e1 == syncMonitorFiles(e, p)
         IN  IF e1.crash THEN Ended(e1)
             ELSE Ended([e1 EXCEPT !.calls = Append(e1.calls, Call("Start", p))])
    ELSE Ended(e)

\* Docker.WaitForStatus, the callback of GetContainerStatus.
OnWaitStatus(k, p, q) ==
    LET t == ev[k][p]
        e == Keep(k, p)
        r == GetContainerStatus(p, q)
    IN  IF StatusReached(r, FALSE) THEN RestartCallback(e, p, TRUE)
        ELSE [e EXCEPT !.task.pc = "sleep"]

\* Docker.WaitForStatus as called by the timer, with attempts - 1.
OnWaitTimer(k, p) ==
    LET t == ev[k][p]
        e == Keep(k, p)
    IN  IF AttemptsLeft(t.att) = 0 THEN RestartCallback(e, p, FALSE)
        ELSE [e EXCEPT !.task = [t EXCEPT !.pc = "poll",
                                          !.att = AttemptsLeft(t.att)]]

(* ------------------------------------------------------------------ *)
(* The state machine of the monitor                                      *)
(* ------------------------------------------------------------------ *)

ProfileOrder == <<"p1", "p2">>

FirstCycle == [k \in Slots |-> IF k = 1 THEN "query" ELSE "free"]
FirstInit == [k \in Slots |-> k = 1]
AllIdle == [k \in Slots |-> [p \in Profiles |-> Idle]]

\* After index.ts has constructed Docker and Monitor on a fresh host: the
\* configuration is loaded, the cache is empty, and runMonitor(true) has
\* issued its status query.
Started ==
    /\ cache = [p \in Profiles |-> NoFP]
    /\ builds = [p \in Profiles |-> [f \in FPs |-> AbsentDir]]
    /\ temp = [p \in Profiles |-> AbsentTemp]
    /\ current = [p \in Profiles |-> NoCurrent]
    /\ cyc = FirstCycle
    /\ cycInit = FirstInit
    /\ ev = AllIdle
    /\ calls = <<>>
    /\ wrote = {}

Init ==
    /\ \E c \in Setups : monitors = c.monitors /\ autostart = c.autostart
    /\ Started
    /\ w = NoWait
    /\ api = NoApi
    /\ feed = NoFeed

SlotFree(k) == cyc[k] = "free" /\ \A p \in Profiles : ev[k][p].pc = "idle"

\* The state of the evaluations after a callback on (k, p) with effect e.
Disturb(k, p, e) ==
    [j \in Slots |-> [q \in Profiles |->
        IF j = k /\ q = p THEN e.task
        ELSE IF q = p /\ e.wipe /\ ev[j][q].pc \in {"piping", "extract"}
             THEN [ev[j][q] EXCEPT !.disturbed = TRUE]
        ELSE IF q = p /\ e.clobber /\ ev[j][q].pc = "piping"
             THEN [ev[j][q] EXCEPT !.disturbed = TRUE]
        ELSE ev[j][q]]]

\* A variant of Apply below in which the cache is one value shared by the
\* profiles.
ApplySharingCache(k, p, e) ==
    /\ builds' = [builds EXCEPT ![p] = e.builds]
    /\ temp' = [temp EXCEPT ![p] = e.temp]
    /\ current' = [current EXCEPT ![p] = e.current]
    /\ calls' = e.calls
    /\ wrote' = e.wrote
    /\ IF e.crash
       THEN /\ cache' = [q \in Profiles |-> NoFP]
            /\ ev' = AllIdle
            /\ cyc' = FirstCycle
            /\ cycInit' = FirstInit
       ELSE /\ cache' = [q \in Profiles |-> e.cache]
            /\ ev' = Disturb(k, p, e)
            /\ UNCHANGED <<cyc, cycInit>>
    /\ UNCHANGED <<cfgVars, feed, w, api>>

\* A callback on (k, p) with effect e has run.
Apply(k, p, e) ==
    /\ builds' = [builds EXCEPT ![p] = e.builds]
    /\ temp' = [temp EXCEPT ![p] = e.temp]
    /\ current' = [current EXCEPT ![p] = e.current]
    /\ calls' = e.calls
    /\ wrote' = e.wrote
    /\ IF e.crash
       THEN /\ cache' = [q \in Profiles |-> NoFP]
            /\ ev' = AllIdle
            /\ cyc' = FirstCycle
            /\ cycInit' = FirstInit
       ELSE /\ cache' = [cache EXCEPT ![p] = e.cache]
            /\ ev' = Disturb(k, p, e)
            /\ UNCHANGED <<cyc, cycInit>>
    /\ UNCHANGED <<cfgVars, feed, w, api>>

\* index.ts cron.schedule: runMonitor(false) issues GetStatuses.  S: the
\* cycle slots that may be used.
CronIn(S) ==
    /\ NoSyncSection
    /\ \E k \in S :
          /\ SlotFree(k)
          /\ \A j \in S : j < k => ~SlotFree(j)
          /\ cyc' = [cyc EXCEPT ![k] = "query"]
          /\ cycInit' = [cycInit EXCEPT ![k] = FALSE]
    /\ calls' = <<>>
    /\ wrote' = {}
    /\ UNCHANGED <<cfgVars, feed, cache, fsVars, ev, w, api>>

\* The schedule fires after the previous cycle has finished.
CronTrigger == CronIn({1})

\* The schedule fires whether or not earlier cycles have finished.
CronOverlap == CronIn(Slots)

Evaluated(p) == monitors[p].Type \in {"repo", "release"}

RECURSIVE VersionRequests(_)
VersionRequests(ps) ==
    IF ps = <<>> THEN <<>>
    ELSE (IF Evaluated(Head(ps)) THEN <<Call("GetVersion", Head(ps))>>
          ELSE <<>>) \o VersionRequests(Tail(ps))

\* A variant of runMonitor below that evaluates the monitors whether or not
\* the status query succeeded.
runMonitorIgnoringFailure(k, q) ==
    /\ NoSyncSection
    /\ cyc[k] = "query"
    /\ cyc' = [cyc EXCEPT ![k] = "free"]
    /\ cycInit' = [cycInit EXCEPT ![k] = FALSE]
    /\ calls' = VersionRequests(ProfileOrder)
    /\ ev' = [ev EXCEPT ![k] = [p \in Profiles |->
                IF Evaluated(p)
                THEN [Idle EXCEPT !.pc = "version",
                                  !.isInit = cycInit[k],
                                  !.up = q.up \cap monitors[p].MonitorContainers]
                ELSE Idle]]
    /\ wrote' = {}
    /\ UNCHANGED <<cfgVars, feed, cache, fsVars, w, api>>

\* Monitor.runMonitor, the callback of GetStatuses: on failure nothing; on
\* success every monitor's version request is issued with the snapshot (of
\* which checkMonitorStatus reads the monitor's own containers).
runMonitor(k, q) ==
    /\ NoSyncSection
    /\ cyc[k] = "query"
    /\ cyc' = [cyc EXCEPT ![k] = "free"]
    /\ cycInit' = [cycInit EXCEPT ![k] = FALSE]
    /\ IF ~q.ok
       THEN /\ calls' = <<>>
            /\ UNCHANGED ev
       ELSE /\ calls' = VersionRequests(ProfileOrder)
            /\ ev' = [ev EXCEPT ![k] = [p \in Profiles |->
                        IF Evaluated(p)
                        THEN [Idle EXCEPT !.pc = "version",
                                          !.isInit = cycInit[k],
                                          !.up = q.up \cap monitors[p].MonitorContainers]
                        ELSE Idle]]
    /\ wrote' = {}
    /\ UNCHANGED <<cfgVars, feed, cache, fsVars, w, api>>

StatusesResult == \E k \in Slots : \E q \in StatusOutcomes : runMonitor(k, q)

VersionResponse ==
    \E k \in Slots : \E p \in Profiles :
        /\ NoSyncSection
        /\ ev[k][p].pc = "version"
        /\ \E o \in VersionOutcomes(monitors[p].Type) :
              IF monitors[p].Type = "repo"
              THEN Apply(k, p, runRepoMonitor(k, p, o))
              ELSE Apply(k, p, runReleaseMonitor(k, p, o))

DownloadResponse ==
    \E k \in Slots : \E p \in Profiles :
        /\ NoSyncSection
        /\ ev[k][p].pc = "download"
        /\ \E o \in DownloadOutcomes : Apply(k, p, OnDownload(k, p, o))

DownloadFinish ==
    \E k \in Slots : \E p \in Profiles :
        /\ NoSyncSection
        /\ ev[k][p].pc = "piping"
        /\ Apply(k, p, OnFinish(k, p))

ExtractResolve ==
    \E k \in Slots : \E p \in Profiles :
        /\ NoSyncSection
        /\ ev[k][p].pc = "extract"
        /\ Apply(k, p, OnExtracted(k, p))

\* extract() rejects (corrupt archive): nobody handles the rejection.
ExtractReject ==
    \E k \in Slots : \E p \in Profiles :
        /\ NoSyncSection
        /\ ev[k][p].pc = "extract"
        /\ Apply(k, p, Ended(Keep(k, p)))

Rename ==
    \E k \in Slots : \E p \in Profiles :
        /\ ev[k][p].pc = "rename"
        /\ \E ok \in BOOLEAN : Apply(k, p, PromoteRename(k, p, ok))

RemoveCurrent ==
    \E k \in Slots : \E p \in Profiles :
        /\ ev[k][p].pc = "rmcurrent"
        /\ \E o \in RemoveOutcomes : Apply(k, p, PromoteRemoveCurrent(k, p, o))

CopyBuild ==
    \E k \in Slots : \E p \in Profiles :
        /\ ev[k][p].pc = "cpcurrent"
        /\ \E ok \in BOOLEAN : Apply(k, p, PromoteCopyBuild(k, p, ok))

CopyFiles ==
    \E k \in Slots : \E p \in Profiles :
        /\ ev[k][p].pc = "copyfiles"
        /\ \E failAt \in 0..Len(monitors[p].CopyFiles) :
              Apply(k, p, PromoteCopyFiles(k, p, failAt))

CacheSet ==
    \E k \in Slots : \E p \in Profiles :
        /\ ev[k][p].pc = "cacheset"
        /\ Apply(k, p, PromoteFinish(k, p))

WaitStatus ==
    \E k \in Slots : \E p \in Profiles :
        /\ NoSyncSection
        /\ ev[k][p].pc = "poll"
        /\ \E q \in StatusOutcomes : Apply(k, p, OnWaitStatus(k, p, q))

WaitTimer ==
    \E k \in Slots : \E p \in Profiles :
        /\ NoSyncSection
        /\ ev[k][p].pc = "sleep"
        /\ Apply(k, p, OnWaitTimer(k, p))

\* The process dies (a kill, an uncaught 'error' event of a download
\* stream, an unhandled rejection on a Node that exits on them) and is
\* started again: index.ts runs from the top on the directories as they are.
ProcessRestart ==
    /\ cache' = [q \in Profiles |-> NoFP]
    /\ ev' = AllIdle
    /\ cyc' = FirstCycle
    /\ cycInit' = FirstInit
    /\ calls' = <<>>
    /\ wrote' = {}
    /\ UNCHANGED <<cfgVars, feed, fsVars, w, api>>

Next ==
    \/ CronTrigger
    \/ StatusesResult
    \/ VersionResponse
    \/ DownloadResponse
    \/ DownloadFinish
    \/ ExtractResolve
    \/ ExtractReject
    \/ Rename
    \/ RemoveCurrent
    \/ CopyBuild
    \/ CopyFiles
    \/ CacheSet
    \/ WaitStatus
    \/ WaitTimer
    \/ ProcessRestart

Spec == Init /\ [][Next]_vars

(* ------------------------------------------------------------------ *)
(* Overlapping cycles                                                    *)
(* ------------------------------------------------------------------ *)

InitOverlap ==
    /\ monitors = OverlapSetup.monitors
    /\ autostart = OverlapSetup.autostart
    /\ Started
    /\ w = NoWait
    /\ api = NoApi
    /\ feed = NoFeed

NextOverlap ==
    \/ CronOverlap
    \/ StatusesResult
    \/ VersionResponse
    \/ DownloadResponse
    \/ DownloadFinish
    \/ ExtractResolve
    \/ ExtractReject
    \/ Rename
    \/ RemoveCurrent
    \/ CopyBuild
    \/ CopyFiles
    \/ CacheSet

SpecOverlap == InitOverlap /\ [][NextOverlap]_vars

(* ------------------------------------------------------------------ *)
(* Two profiles with a destination                                       *)
(* ------------------------------------------------------------------ *)

StagedPlain(type) == MonitorDetails(type, TRUE, FALSE, FALSE, <<>>, {})

\* monitor-details.json with a repo monitor and a release monitor that both
\* have a DestinationDirectory, and no autostart profile.
PairSetup ==
    [monitors |-> [p \in Profiles |->
                      IF p = "p1" THEN StagedPlain("repo")
                      ELSE StagedPlain("release")],
     autostart |-> {}]

InitPair ==
    /\ monitors = PairSetup.monitors
    /\ autostart = PairSetup.autostart
    /\ Started
    /\ w = NoWait
    /\ api = NoApi
    /\ feed = NoFeed

NextPair ==
    \/ CronTrigger
    \/ StatusesResult
    \/ VersionResponse
    \/ DownloadResponse
    \/ DownloadFinish
    \/ ExtractResolve
    \/ ExtractReject
    \/ Rename
    \/ RemoveCurrent
    \/ CopyBuild
    \/ CopyFiles
    \/ CacheSet

SpecPair == InitPair /\ [][NextPair]_vars

(* ------------------------------------------------------------------ *)
(* The release feed                                                      *)
(* ------------------------------------------------------------------ *)

\* Most releases in a feed.
MaxReleases == 2

\* Asset file names: "a.z", "b.t.z" and "c".
AssetNames ==
    { <<"a", ".", "z">>, <<"b", ".", "t", ".", "z">>, <<"c">> }

\* The assets of a release: none, one, or two of different names.
AssetLists ==
    {<<>>}
    \cup { <<[name |-> n]>> : n \in AssetNames }
    \cup { <<[name |-> x[1]], [name |-> x[2]]>> :
               x \in { y \in AssetNames \X AssetNames : y[1] # y[2] } }

Releases == [prerelease : BOOLEAN, assets : AssetLists]

Feeds == UNION { [1..n -> Releases] : n \in 0..MaxReleases }

\* The values of asset_regex: the default, and "t".
AssetPatterns == {MatchAll, <<"t">>}

\* p2 is a release monitor without destination that is started on the
\* initial run; the fingerprint of such a profile is used for nothing but
\* the comparison with its cache entry.
FeedSetups ==
    { [monitors |-> [p \in Profiles |->
                        IF p = "p1" THEN WatchedP1
                        ELSE [MonitoredP2(auto) EXCEPT
                                 !.AllowPrerelease = pre, !.AssetRegex = rx]],
       autostart |-> {"p2"}] :
      auto \in BOOLEAN, pre \in BOOLEAN, rx \in AssetPatterns }

InitFeed ==
    /\ \E c \in FeedSetups : monitors = c.monitors /\ autostart = c.autostart
    /\ Started
    /\ w = NoWait
    /\ api = NoApi
    /\ feed \in Feeds

\* The releases request of p is answered with status 200 and the feed.
FeedResponse ==
    \E k \in Slots : \E p \in Profiles :
        /\ NoSyncSection
        /\ monitors[p].Type = "release"
        /\ ev[k][p].pc = "version"
        /\ Apply(k, p, runReleaseMonitor(k, p, FeedOutcome(feed, monitors[p])))

NextFeed == StatusesResult \/ FeedResponse

SpecFeed == InitFeed /\ [][NextFeed]_vars

(* ------------------------------------------------------------------ *)
(* Docker.WaitForStatus called on its own                                *)
(* ------------------------------------------------------------------ *)

\* The names waited for: "p1" is a key of every successful snapshot, "p2"
\* of none.
WaitNames == {"p1", "p2"}

\* Docker.WaitForStatus(containerName, desiredStatus, attempts, callback)
\* up to its return: the callback is given false when attempts is 0,
\* otherwise one status query is issued.
WaitForStatus(c, attempts) ==
    IF attempts = 0
    THEN [c EXCEPT !.pc = "done", !.att = 0, !.result = "fail"]
    ELSE [c EXCEPT !.pc = "poll", !.att = attempts, !.polls = c.polls + 1]

\* A successful query that has the name and reports it in the desired state.
Reports(q, name, desired) ==
    q.ok /\ name \in q.keys /\ ((name \in q.up) = desired)

InitWait ==
    /\ monitors = OverlapSetup.monitors
    /\ autostart = OverlapSetup.autostart
    /\ Started
    /\ \E n \in WaitNames : \E d \in BOOLEAN : \E m \in 0..MaxWaitAttempts :
          w = [NoWait EXCEPT !.pc = "call", !.name = n, !.desired = d,
                             !.max = m, !.att = m]
    /\ api = NoApi
    /\ feed = NoFeed

\* The caller's call of WaitForStatus.
WaitCall ==
    /\ w.pc = "call"
    /\ w' = WaitForStatus(w, w.att)
    /\ UNCHANGED <<cfgVars, feed, cache, fsVars, cyc, cycInit, ev, calls, wrote, api>>

\* The callback of GetContainerStatus.
WaitPolled ==
    /\ w.pc = "poll"
    /\ \E q \in StatusOutcomes :
          LET r == GetContainerStatus(w.name, q)
              c == [w EXCEPT !.saw = w.saw \/ Reports(q, w.name, w.desired)]
          IN  w' = IF StatusReached(r, w.desired)
                   THEN [c EXCEPT !.pc = "done", !.result = "ok"]
                   ELSE [c EXCEPT !.pc = "sleep", !.sleeps = w.sleeps + 1]
    /\ UNCHANGED <<cfgVars, feed, cache, fsVars, cyc, cycInit, ev, calls, wrote, api>>

\* The setTimeout callback, 5000 ms later.
WaitSlept ==
    /\ w.pc = "sleep"
    /\ w' = WaitForStatus(w, AttemptsLeft(w.att))
    /\ UNCHANGED <<cfgVars, feed, cache, fsVars, cyc, cycInit, ev, calls, wrote, api>>

NextWait == WaitCall \/ WaitPolled \/ WaitSlept

SpecWait == InitWait /\ [][NextWait]_vars

(* ------------------------------------------------------------------ *)
(* The docker supervisor called on its own (the HTTP routes)             *)
(* ------------------------------------------------------------------ *)

\* Most lines of output given to GetStatuses.
MaxRows == 2

\* The names given to StartProfile, StopProfile and ExecuteCommand: a
\* profile that is also a service, a profile, a service that is no
\* profile, and a name the compose file does not have.
ApiNames == {"p1", "p2", "svc", "nope"}

\* The container of each service: the default name, or container_name.
ContainerName == [s \in Services |-> IF s = "p1" THEN "proj-p1-1" ELSE s]

Statuses ==
    { <<"U", "p">>, <<"U", "p", " ", "2", "h">>, <<"E", "x", "i", "t">>,
      <<"u", "p">>, <<"U">> }

\* The lines of `docker compose ps -a`: one per container, and lines
\* without service (the empty last line, a line cut short).
Lines ==
    { [name |-> ContainerName[s], service |-> s, status |-> st] :
         s \in Services, st \in Statuses }
    \cup { [name |-> "", service |-> "", status |-> <<>>],
           [name |-> "old", service |-> "", status |-> UpToken] }

\* No two lines of a table are of the same service.
OneLinePerService(rows) ==
    \A i, j \in 1..Len(rows) :
       (i # j /\ rows[i].service # "") => rows[i].service # rows[j].service

Tables ==
    { t \in UNION { [1..n -> Lines] : n \in 0..MaxRows } : OneLinePerService(t) }

CommandOutputs ==
    { [error |-> e, stderr |-> x, rows |-> t] :
         e \in BOOLEAN, x \in BOOLEAN, t \in Tables }

InitDocker ==
    /\ monitors = OverlapSetup.monitors
    /\ autostart = OverlapSetup.autostart
    /\ Started
    /\ w = NoWait
    /\ api = NoApi
    /\ feed = NoFeed

ApiUnchanged ==
    UNCHANGED <<cfgVars, feed, cache, fsVars, cyc, cycInit, ev, calls, wrote, w>>

\* Docker.StartProfile is called (by the route /start/:name).
ApiStartProfile ==
    /\ api.pc = "idle"
    /\ \E n \in ApiNames :
          api' = [NoApi EXCEPT !.op = "start", !.pc = "done", !.name = n,
                               !.ret = StartProfile(n).ret,
                               !.spawned = StartProfile(n).spawned]
    /\ ApiUnchanged

\* Docker.StopProfile is called (by the route /stop/:name).
ApiStopProfile ==
    /\ api.pc = "idle"
    /\ \E n \in ApiNames :
          api' = [NoApi EXCEPT !.op = "stop", !.pc = "done", !.name = n,
                               !.ret = StopProfile(n).ret,
                               !.spawned = StopProfile(n).spawned]
    /\ ApiUnchanged

\* The subprocess of StartProfile or StopProfile exits.
SubprocessExit ==
    /\ api.op \in {"start", "stop"}
    /\ \E i \in 1..Len(api.spawned) :
          /\ ~api.spawned[i].exited
          /\ api' = [api EXCEPT !.spawned[i].exited = TRUE]
    /\ ApiUnchanged

\* Docker.ExecuteCommand is called: GetContainerStatus is issued.
ApiExecuteCommand ==
    /\ api.pc = "idle"
    /\ \E n \in ApiNames :
          api' = [NoApi EXCEPT !.op = "exec", !.pc = "status", !.name = n]
    /\ ApiUnchanged

ExecuteStatus ==
    /\ api.op = "exec" /\ api.pc = "status"
    /\ \E q \in StatusOutcomes :
          api' = [OnExecuteStatus(api, q) EXCEPT
                     !.sawUp = q.ok /\ api.name \in q.keys /\ api.name \in q.up]
    /\ ApiUnchanged

ExecuteDone ==
    /\ api.op = "exec" /\ api.pc = "exec"
    /\ \E o \in ExecOutcomes : api' = OnExecuteDone(api, o)
    /\ ApiUnchanged

\* Docker.GetStatuses is called (by the route /status/) and the callback
\* of its exec runs.
ApiGetStatuses ==
    /\ api.pc = "idle"
    /\ \E out \in CommandOutputs :
          api' = [NoApi EXCEPT !.op = "statuses", !.pc = "done", !.out = out,
                               !.result = GetStatuses(out)]
    /\ ApiUnchanged

NextDocker ==
    \/ ApiStartProfile
    \/ ApiStopProfile
    \/ SubprocessExit
    \/ ApiExecuteCommand
    \/ ExecuteStatus
    \/ ExecuteDone
    \/ ApiGetStatuses

SpecDocker == InitDocker /\ [][NextDocker]_vars

(* ------------------------------------------------------------------ *)
(* Properties                                                            *)
(* ------------------------------------------------------------------ *)

Staged(p) == monitors[p].DestinationDirectory

Called(op, p, cs) == Call(op, p) \in SeqToSet(cs)

\* current/ is a finished copy of builds/<fp> with every auxiliary file of
\* the profile copied into it (promotion steps 5 and 6 done for fp).
Promoted(p, fp, cur) ==
    cur = [of |-> fp, st |-> "whole", aux |-> SeqToSet(monitors[p].CopyFiles)]

\* A callback of p's evaluation in slot k set p's cache entry.
CacheWritten(p) == cache'[p] # NoFP /\ cache'[p] # cache[p]

\* C1: the Version Cache entry of a staged profile is set to fp only after
\* promotion steps 1-6 succeeded for fp: in the state in which the entry
\* becomes fp, current/ is a copy of builds/fp with every auxiliary file
\* copied into it.
CacheSetOnlyAfterPromotion ==
    [][\A p \in Profiles :
          (Staged(p) /\ CacheWritten(p)) => Promoted(p, cache'[p], current'[p])
      ]_vars

\* The promotion of p in slot k stops between the move to builds/<fp> and
\* the end of the copy to current/ (a throwing call, or the process dying).
FailsBetweenMoveAndCopy(k, p) ==
    /\ ev[k][p].pc \in {"rmcurrent", "cpcurrent"}
    /\ ev'[k][p].pc = "idle"

\* C2: promotion atomicity.  When a promotion fails after the move to
\* builds/fp and before builds/fp is copied to current/, current/ still
\* holds the previous version (the one the cache names); and the cycle that
\* then finds builds/fp in place, with current/ not yet a copy of it,
\* completes the promotion without a download.
PromotionAtomicity ==
    [][\A k \in Slots : \A p \in Profiles :
          /\ (Staged(p) /\ FailsBetweenMoveAndCopy(k, p) /\ cache[p] # NoFP)
                => Promoted(p, cache[p], current'[p])
          /\ (Staged(p) /\ ev[k][p].pc = "version" /\ CacheWritten(p)
                /\ ~Promoted(p, cache'[p], current[p]))
                => (/\ Promoted(p, cache'[p], current'[p])
                    /\ ~Called("Download", p, calls'))
      ]_vars

\* C3: once current/ holds a complete copy of a promoted build (steps 1-6
\* of a promotion done), every later state shows a complete copy of a
\* build: current/ is never missing or partially copied,
\* between the filesystem steps of a promotion or after a failed step.
CurrentStaysComplete ==
    [][\A p \in Profiles :
          (Staged(p) /\ Promoted(p, current[p].of, current[p]))
              => current'[p].st = "whole"
      ]_vars

\* C4: a restart is Stop(profile), then WaitForStatus(profile, down, 12),
\* then, in the callback of a status query of that wait and only there, the
\* auxiliary-file resync followed by Start(profile).  Stop is called by an
\* evaluation that has not restarted yet and leaves it waiting with 12
\* attempts; the wait's failure (the timer using up the last attempt) calls
\* nothing and ends the evaluation, so that nothing more is stopped or
\* started for the profile in that cycle.
RestartOrder ==
    [][\A p \in Profiles :
          /\ Called("Start", p, calls')
                => /\ calls' = <<Call("Sync", p), Call("Start", p)>>
                   /\ \E k \in Slots : /\ ev[k][p].pc = "poll"
                                       /\ ev'[k][p].pc = "idle"
          /\ Called("Stop", p, calls')
                => /\ calls'[Len(calls')] = Call("Stop", p)
                   /\ Cardinality({ i \in 1..Len(calls') :
                                       calls'[i] = Call("Stop", p) }) = 1
                   /\ \E k \in Slots :
                         /\ ev[k][p].pc \in {"version", "download", "cacheset"}
                         /\ ev'[k][p] = RestartTask
          /\ \A k \in Slots :
                (ev[k][p].pc = "sleep" /\ ev'[k][p].pc # "sleep")
                    => \/ /\ ev[k][p].att = 1
                          /\ ev'[k][p].pc = "idle"
                          /\ calls' = <<>>
                       \/ /\ ev[k][p].att > 1
                          /\ ev'[k][p].pc \in {"poll", "idle"}
                          /\ calls' = <<>>
      ]_vars

\* C4, witness: a wait has reported success and its callback has resynced
\* the auxiliary files and called Start.
RestartReachedStart ==
    \E p \in Profiles : calls = <<Call("Sync", p), Call("Start", p)>>

\* C5: WaitForStatus(name, false, n) reports success only if a successful
\* status query reported name as down; a failed query and a name the
\* snapshot lacks are "liveness unknown".
DownWaitSucceedsOnlyIfSeenDown ==
    (w.pc = "done" /\ w.result = "ok" /\ ~w.desired) => w.saw

\* C6: if no status query reports the desired state, WaitForStatus reports
\* failure after exactly maxAttempts polls, each followed by one sleep, and
\* with maxAttempts = 0 without any poll; it never polls more often.
WaitFailsAfterMaxAttempts ==
    /\ w.polls <= w.max
    /\ (w.pc = "done" /\ ~w.saw)
          => (w.result = "fail" /\ w.polls = w.max /\ w.sleeps = w.max)

InProgress(k, p) == ev[k][p].pc \in StagingPcs \cup PromoPcs \cup WaitPcs

\* C7: per-profile mutual exclusion: at most one fetch+promote+restart
\* sequence of a profile is in progress at any time, also when a cycle is
\* triggered before an earlier one has finished.
OneSequencePerProfile ==
    \A p \in Profiles : Cardinality({ k \in Slots : InProgress(k, p) }) <= 1

\* C8: fetch-skip promotion.  When the resolved fingerprint differs from
\* the cached one and builds/fp exists, the cycle downloads nothing and
\* replaces current/ with a copy of builds/fp and copies the auxiliary
\* files again before the cache is set to fp.
FetchSkipPromotes ==
    [][\A k \in Slots : \A p \in Profiles :
          (Staged(p) /\ ev[k][p].pc = "version" /\ CacheWritten(p))
              => /\ ~Called("Download", p, calls')
                 /\ <<p, "current">> \in wrote'
                 /\ Promoted(p, cache'[p], current'[p])
      ]_vars

\* C9: idempotence.  After a completed promotion of fp (current/ a copy of
\* builds/fp with its auxiliary files, cache = fp), the cycle that takes
\* the cache-hit branch for the staged profile mutates nothing on
\* disk: no download, no change to temp/, builds/ or current/, no copy of
\* an unchanged auxiliary file.
CacheHitWritesNothing ==
    [][\A k \in Slots : \A p \in Profiles :
          (Staged(p) /\ ev[k][p].pc = "version" /\ Called("Sync", p, calls')
              /\ Promoted(p, cache[p], current[p]))
              => /\ wrote' = {}
                 /\ ~Called("Download", p, calls')
                 /\ UNCHANGED fsVars
      ]_vars

\* C10: on the initial run every configured profile of the autostart set
\* has a restart initiated whatever the outcome of the update check: the
\* initial status query leaves each of them being evaluated, and their
\* evaluation does not end before it has called Stop.
InitialRunRestartsAutostart ==
    [][/\ (cyc[1] = "query" /\ cycInit[1] /\ cyc'[1] = "free")
            => \A p \in autostart : ev'[1][p].pc # "idle"
       /\ \A k \in Slots : \A p \in autostart :
            (ev[k][p].isInit /\ ev'[k][p].pc = "idle" /\ cyc'[1] = "free")
                => Called("Stop", p, calls')
      ]_vars

\* runMonitor's dispatch on monitor.Type: the handler of the version
\* request of p with outcome o.
Evaluate(k, p, o) ==
    IF monitors[p].Type = "repo" THEN runRepoMonitor(k, p, o)
    ELSE runReleaseMonitor(k, p, o)

\* C11: error isolation.  No callback of a profile's evaluation (version
\* response, download response, status callback of the restart with its
\* resync) ends in an exception that nobody catches: the process is never
\* terminated by it, and with it the evaluations of the other profiles.
ErrorsNeverEndProcess ==
    \A k \in Slots : \A p \in Profiles :
       /\ ev[k][p].pc = "version"
             => \A o \in VersionOutcomes(monitors[p].Type) :
                   ~Evaluate(k, p, o).crash
       /\ ev[k][p].pc = "download"
             => \A o \in DownloadOutcomes : ~OnDownload(k, p, o).crash
       /\ ev[k][p].pc = "poll"
             => \A q \in StatusOutcomes : ~OnWaitStatus(k, p, q).crash

\* The outcomes of a version request that are upstream errors.
UpstreamErrors == {"reject", "non200", "empty"}

\* The outcomes of the download request that are staging errors.
DownloadErrors == {"reject", "non200"}

\* After a callback with effect e that ended in an error, a cycle that
\* resolves fingerprint fp for p fetches it again.
RetriesFetch(e, p, fp) ==
    /\ e.cache # fp
    /\ Staged(p) => Called("Download", p,
                           downloadAndExtract([e EXCEPT !.calls = <<>>],
                                              p, fp, FALSE).calls)

RestartFollowsPromotion ==
    [][\A k \in Slots : \A p \in Profiles :
          /\ (Staged(p) /\ ev[k][p].pc \in {"version", "cacheset"}
                /\ Called("Stop", p, calls') /\ ~Called("Sync", p, calls'))
                => /\ cache'[p] # NoFP
                   /\ Promoted(p, cache'[p], current'[p])
          /\ (Staged(p) /\ ev[k][p].pc = "cacheset")
                => /\ cache'[p] = ev[k][p].fp
                   /\ Called("Stop", p, calls')
                         <=> RestartWanted(p, ev[k][p].isInit)
      ]_vars

\* A restart of p was begun by a callback with effect e.
Restarts(e, p) == Called("Stop", p, e.calls) /\ e.task = RestartTask

\* A callback with effect e wrote nothing under p's directories.
WritesNothing(e, p) ==
    /\ e.wrote = {}
    /\ e.builds = builds[p] /\ e.temp = temp[p] /\ e.current = current[p]

\* Some monitored container of p is not up in the snapshot of the cycle.
SomeContainerDown(p, upStatuses) ==
    \E x \in monitors[p].MonitorContainers : x \notin upStatuses

\* C14: for a profile without destination whose resolved fingerprint is
\* not the cached one: if AutoRestart is set or (initial run and autostart)
\* the profile is restarted and nothing is written under builds/, temp/ or
\* current/; otherwise liveness reconciliation alone is performed, which
\* restarts iff a monitored container is not up and so calls no stop/start
\* when the profile declares no monitored container.  No step of the
\* service writes under such a profile's directories.
UnstagedRestartOrReconcile ==
    [][\A k \in Slots : \A p \in Profiles :
          ~Staged(p) =>
             /\ builds'[p] = builds[p] /\ temp'[p] = temp[p]
             /\ current'[p] = current[p]
             /\ \A x \in {"builds", "temp", "current"} : <<p, x>> \notin wrote'
             /\ ev[k][p].pc = "version" =>
                  \A o \in VersionOutcomes(monitors[p].Type) :
                     (o.kind = "ok" /\ o.fp # cache[p]) =>
                        LET e == Evaluate(k, p, o)
                        IN  /\ WritesNothing(e, p)
                            /\ ~Called("Download", p, e.calls)
                            /\ ~Called("Start", p, e.calls)
                            /\ IF RestartWanted(p, ev[k][p].isInit)
                               THEN Restarts(e, p)
                               ELSE /\ Restarts(e, p)
                                         <=> SomeContainerDown(p, ev[k][p].up)
                                    /\ ~Restarts(e, p) => e.calls = <<>>
      ]_vars

\* C14, witness: a profile without destination and with AutoRestart has
\* been stopped on a new fingerprint and waits to be started, while all of
\* its directories are still absent.
UnstagedRestartBegun ==
    \E k \in Slots : \E p \in Profiles :
       /\ ~Staged(p) /\ monitors[p].AutoRestart
       /\ ev[k][p].pc = "poll"
       /\ calls = <<Call("Stop", p)>>
       /\ temp[p] = AbsentTemp /\ current[p] = NoCurrent

\* C15: liveness reconciliation restarts the profile iff it declares a
\* monitored container and one of them is not up in the snapshot of the
\* cycle (a container the snapshot lacks is not up); and on a cache hit the
\* cycle resyncs the auxiliary files and reconciles liveness in this way,
\* without any fetch or promotion.
CacheHitReconciles ==
    [][\A k \in Slots : \A p \in Profiles :
          /\ \A up \in SUBSET Services :
                Restarts(checkMonitorStatus(Keep(k, p), p, up), p)
                   <=> SomeContainerDown(p, up)
          /\ (ev[k][p].pc = "version" /\ cache[p] # NoFP) =>
                LET e == Evaluate(k, p, [kind |-> "ok", fp |-> cache[p]])
                IN  /\ Called("Sync", p, e.calls)
                    /\ ~Called("Download", p, e.calls)
                    /\ e.cache = cache[p]
                    /\ e.builds = builds[p] /\ e.temp = temp[p]
                    /\ e.current.of = current[p].of
                    /\ e.current.st = current[p].st
                    /\ Restarts(e, p) <=> SomeContainerDown(p, ev[k][p].up)
      ]_vars

\* C16: the auxiliary-file resync copies <destination>/<name> over
\* current/<name> iff the source differs from the active copy.  No action
\* modifies an auxiliary source, so every resync of a profile whose
\* auxiliary files are all in current/ finds each source as it was copied:
\* it copies nothing and modifies neither the source nor the active copy.
ResyncLeavesUnchangedFiles ==
    [][\A p \in Profiles :
          (Called("Sync", p, calls')
             /\ SeqToSet(monitors[p].CopyFiles) \subseteq current[p].aux)
              => /\ <<p, "copy">> \notin wrote'
                 /\ <<p, "source">> \notin wrote'
                 /\ <<p, "current">> \notin wrote'
      ]_vars

StartStopOnlyKnownProfiles ==
    [][(api.pc = "idle" /\ api'.op \in {"start", "stop"})
          => IF api'.name \in DockerProfiles
             THEN /\ api'.ret
                  /\ api'.spawned =
                        <<[cmd |-> IF api'.op = "start" THEN "up" ELSE "stop",
                           scope |-> api'.name, exited |-> FALSE]>>
             ELSE ~api'.ret /\ api'.spawned = <<>>
      ]_vars

\* C18, witness: Stop has returned true for a known profile and its one
\* subprocess has exited since; and this was a name that is no service.
StopReturnedBeforeExit ==
    /\ api.op = "stop" /\ api.name = "p2" /\ api.ret
    /\ Len(api.spawned) = 1 /\ api.spawned[1].exited

\* C19: ExecuteCommand(name, command) runs the command only if a
\* successful status query of this call reported name as up; if the query
\* failed, or lacks the name, or reports it down, the one result reported
\* is the failure "Container is not currently running" and the command is
\* not run; every call reports exactly one result.
ExecuteOnlyWhenUp ==
    api.op = "exec" =>
       /\ api.ran => api.sawUp
       /\ Len(api.reports) = IF api.pc = "done" THEN 1 ELSE 0
       /\ (api.pc = "done" /\ ~api.sawUp)
             => /\ ~api.ran /\ api.spawned = <<>>
                /\ api.reports =
                      <<[ok |-> FALSE,
                         output |-> "Container is not currently running"]>>
       /\ (api.pc = "done" /\ api.reports[1].ok) => api.ran

\* C19, witness: the command was run in a container reported up and its
\* output was reported.
CommandRan ==
    /\ api.op = "exec" /\ api.pc = "done" /\ api.ran
    /\ api.reports = <<[ok |-> TRUE, output |-> "stdout"]>>

HasService(line) == line.service # ""

\* The status field begins with the token "Up".
BeginsWithUp(status) ==
    Len(status) >= 2 /\ status[1] = "U" /\ status[2] = "p"

OneSnapshotPerCycle ==
    [][\A k \in Slots : \A p \in Profiles :
          /\ cyc[k] = "query" => ev[k][p].pc = "idle"
          /\ (ev[k][p].pc # "version" /\ ev'[k][p].pc = "version")
                => /\ cyc[k] = "query" /\ cyc'[k] = "free"
                   /\ Called("GetVersion", p, calls')
                   /\ \E up \in SUBSET Services : \A q \in Profiles :
                         ev'[k][q].pc = "version"
                            => ev'[k][q].up = up \cap monitors[q].MonitorContainers
          /\ Called("GetVersion", p, calls')
                => \E j \in Slots : cyc[j] = "query" /\ cyc'[j] = "free"
          /\ (ev[k][p].pc = "version" /\ ev'[k][p].pc = "version")
                => ev'[k][p].up = ev[k][p].up
          /\ ev[k][p].pc = "version"
                => \A o \in VersionOutcomes(monitors[p].Type) :
                      (/\ o.kind = "ok"
                       /\ \/ /\ cache[p] = o.fp
                             /\ ~syncMonitorFiles(Keep(k, p), p).crash
                          \/ /\ ~Staged(p)
                             /\ ~RestartWanted(p, ev[k][p].isInit))
                      => (Restarts(Evaluate(k, p, o), p)
                             <=> SomeContainerDown(p, ev[k][p].up))
      ]_vars

\* C23, witness: a profile without destination that is not to be restarted
\* on a new fingerprint was stopped by the reconciliation of its cycle.
ReconciledFromSnapshot ==
    \E k \in Slots : \E p \in Profiles :
        /\ ~Staged(p) /\ ~monitors[p].AutoRestart /\ p \notin autostart
        /\ ev[k][p] = RestartTask
        /\ calls = <<Call("Stop", p)>>

\* C25: when the up-front status query of a cycle fails (also on the
\* initial run), the cycle ends there: no version request, no download, no
\* stop or start, no change to builds/, temp/, current/ or the cache, and
\* no evaluation is started.
FailedQueryEvaluatesNothing ==
    [][\A k \in Slots :
          (cyc[k] = "query" /\ runMonitor(k, FailedQuery))
             => /\ calls' = <<>> /\ wrote' = {}
                /\ cache' = cache
                /\ builds' = builds /\ temp' = temp /\ current' = current
                /\ \A p \in Profiles : ev'[k][p].pc = "idle"
                /\ cyc'[k] = "free" /\ ~cycInit'[k]
      ]_vars

\* C25, witness: the status query of the initial run has been answered and
\* nothing was evaluated on the fresh host.
InitialQueryFailed ==
    /\ cyc[1] = "free" /\ ~cycInit[1]
    /\ ev = AllIdle
    /\ calls = <<>>
    /\ cache = [p \in Profiles |-> NoFP]
    /\ builds = [p \in Profiles |-> [f \in FPs |-> AbsentDir]]
    /\ temp = [p \in Profiles |-> AbsentTemp]
    /\ current = [p \in Profiles |-> NoCurrent]

CacheNamesBuild ==
    \A p \in Profiles :
        cache[p] # NoFP => (Staged(p) /\ builds[p][cache[p]].exists)

\* C29, witness: the cache names a build that is in place while current/
\* is not a copy of it.
CachedBuildNotCurrent ==
    \E p \in Profiles :
        /\ cache[p] # NoFP
        /\ builds[p][cache[p]].exists
        /\ current[p].of # cache[p]

\* C30: the evaluation of a profile in a cycle initiates at most one
\* restart: a step calls Stop at most once and only on entering the wait,
\* Start at most once and only on leaving it, and the wait is left only for
\* the end of the evaluation.
AtMostOneRestartPerEvaluation ==
    [][\A k \in Slots : \A p \in Profiles :
          LET stops == Cardinality({ i \in 1..Len(calls') :
                                        calls'[i] = Call("Stop", p) })
              starts == Cardinality({ i \in 1..Len(calls') :
                                         calls'[i] = Call("Start", p) })
          IN  /\ stops + starts <= 1
              /\ (stops = 1 /\ ev'[k][p] # ev[k][p])
                    => /\ ev[k][p].pc \notin WaitPcs \cup {"idle"}
                       /\ ev'[k][p].pc \in WaitPcs \cup {"idle"}
              /\ (starts = 1 /\ ev'[k][p] # ev[k][p])
                    => /\ ev[k][p].pc \in WaitPcs
                       /\ ev'[k][p].pc = "idle"
              /\ ev[k][p].pc \in WaitPcs
                    => ev'[k][p].pc \in WaitPcs \cup {"idle"}
              /\ (ev[k][p].pc = "idle" /\ ev'[k][p].pc # "idle")
                    => ev'[k][p].pc = "version"
      ]_vars

\* C30, witness: an evaluation that stopped its profile is waiting between
\* two polls, some attempts used.
RestartWaitingBetweenPolls ==
    \E k \in Slots : \E p \in Profiles :
        /\ ev[k][p].pc = "sleep"
        /\ ev[k][p].att < RestartAttempts

\* C24: a call of WaitForStatus gives its callback one result, when the
\* call is over; the result is success iff one of its at most maxAttempts
\* polls was answered with an up-state of the name equal to the desired
\* one; and after such a poll there is no further poll and no sleep.
WaitSucceedsIffStateSeen ==
    /\ w.polls <= w.max
    /\ (w.result # "none") <=> (w.pc = "done")
    /\ w.pc = "done" => (w.result = "ok" <=> w.saw)
    /\ w.saw => (w.pc = "done" /\ w.sleeps = w.polls - 1)

\* C26: for a profile without destination and with AutoRestart, a restart
\* on a new fingerprint fp records fp in the cache, so that a later cycle
\* that resolves fp takes the cache-hit branch and restarts the profile
\* only if a monitored container is down.
UnstagedRestartIsRemembered ==
    \A k \in Slots : \A p \in Profiles :
        (~Staged(p) /\ monitors[p].AutoRestart /\ ev[k][p].pc = "version")
           => \A o \in VersionOutcomes(monitors[p].Type) :
                 (o.kind = "ok" /\ Restarts(Evaluate(k, p, o), p))
                    => Evaluate(k, p, o).cache = o.fp

\* C28: also when cycles overlap, every directory at builds/<fp> holds the
\* complete extraction of the archive of fp: no staging directory that
\* another cycle emptied or recreated is moved there and promoted.
BuildsHoldCompleteExtraction ==
    \A p \in Profiles : \A f \in FPs :
        builds[p][f].exists => builds[p][f] = Tree(f, TRUE)

\* C22: evaluations are independent with respect to the Version Cache.
\* Under any interleaving of the evaluations of two profiles with a
\* destination, the entry of a profile changes only in a step of that
\* profile's own evaluation (its version response or the end of its
\* promotion), and a step of a profile's evaluation leaves the entry and
\* the evaluation of every other profile as they were.
EvaluationsTouchOwnCacheEntry ==
    [][\A q \in Profiles :
          /\ cache'[q] # cache[q]
                => \E k \in Slots : /\ ev[k][q].pc \in {"version", "cacheset"}
                                    /\ ev'[k][q] # ev[k][q]
          /\ \A k \in Slots :
                (ev[k][q].pc \notin {"idle"} /\ ev'[k][q] # ev[k][q])
                   => \A p \in Profiles \ {q} :
                         /\ cache'[p] = cache[p]
                         /\ \A j \in Slots : ev'[j][p] = ev[j][p]
      ]_vars

\* C22, witness: the two profiles have entries for different fingerprints
\* and the promotion of one of them is about to set its entry.
BothCachedOneWriting ==
    \E p \in Profiles : \E q \in Profiles \ {p} : \E k \in Slots :
        /\ cache[p] # NoFP /\ cache[q] # NoFP /\ cache[p] # cache[q]
        /\ ev[k][p].pc = "cacheset"
        /\ ev[k][p].fp = cache[q]

\* The places <<release, asset>> of the feed whose release is admitted by
\* the prerelease setting and whose asset name matches the filter pattern.
Surviving(data, m) ==
    { x \in (1..Len(data)) \X (1..2) :
        /\ x[2] <= Len(data[x[1]].assets)
        /\ (~data[x[1]].prerelease \/ m.AllowPrerelease)
        /\ Matches(data[x[1]].assets[x[2]].name, m.AssetRegex) }

\* The first place of a set of places in feed order.
FirstInFeed(places) ==
    CHOOSE x \in places :
       \A y \in places : x[1] < y[1] \/ (x[1] = y[1] /\ x[2] <= y[2])

\* A file name without its last extension: what precedes the last dot,
\* when something follows that dot.
WithoutLastExtension(name) ==
    LET dots == { i \in 1..Len(name) : name[i] = "." }
        last == CHOOSE i \in dots : \A j \in dots : j <= i
    IN  IF dots = {} \/ name[Len(name)] = "." THEN name
        ELSE SubSeq(name, 1, last - 1)

\* C21: the fingerprint of a release feed is the file name, without its
\* last extension, of the first asset in feed order among the assets of the
\* releases that are no prerelease (of all releases when prereleases are
\* allowed) whose name matches the filter pattern; when no asset survives,
\* the evaluation ends with nothing done: no download, no promotion, no
\* restart (not even of an autostart profile on the initial run), no cache
\* change, and no exception that ends the process.
FirstSurvivingAssetIsFingerprint ==
    [][\A k \in Slots : \A p \in Profiles :
          (monitors[p].Type = "release" /\ ev[k][p].pc = "version")
             => LET places == Surviving(feed, monitors[p])
                    o == FeedOutcome(feed, monitors[p])
                    first == FirstInFeed(places)
                IN  IF places = {}
                    THEN /\ o.kind = "empty"
                         /\ ev'[k][p] # ev[k][p]
                               => /\ ev'[k][p] = Idle
                                  /\ calls' = <<>> /\ wrote' = {}
                                  /\ cache' = cache
                                  /\ builds' = builds /\ temp' = temp
                                  /\ current' = current
                                  /\ cyc' = cyc
                    ELSE /\ o.kind = "ok"
                         /\ o.fp = WithoutLastExtension(
                                      feed[first[1]].assets[first[2]].name)
      ]_vars

\* C21, witness: on the initial run the feed of an autostart profile had a
\* release but no surviving asset, and the evaluation of the profile is
\* over with no call made.
NothingToDoForFeed ==
    \E p \in Profiles :
        /\ monitors[p].Type = "release" /\ p \in autostart
        /\ feed # <<>>
        /\ \E i \in 1..Len(feed) : feed[i].assets # <<>>
        /\ Surviving(feed, monitors[p]) = {}
        /\ cyc[1] = "free"
        /\ ev[1]["p1"].pc = "version"
        /\ ev[1][p].pc = "idle"
        /\ calls = <<>>

\* C31: after every successful promotion (the step that sets the cache at
\* the end of steps 1-6) the scratch directory temp/ does not exist, with
\* and without RemoveParentFolder.
TempGoneAfterPromotion ==
    [][\A k \in Slots : \A p \in Profiles :
          (Staged(p) /\ ev[k][p].pc = "cacheset" /\ ev'[k][p] # ev[k][p])
             => ~temp'[p].exists
      ]_vars

====
